---- MODULE Spec2Model ----
(***************************************************************************)
(* Model of course/module-3/finetuning/generate_data.py: DataFormatter     *)
(* (prompt templating) and DatasetGenerator (fetch, batch, complete,       *)
(* overwrite, push).                                                       *)
(*                                                                         *)
(* A Python str is a sequence of tokens.  A token is an atomic piece of    *)
(* text: a literal fragment of a template, one decimal digit, a newline,   *)
(* or a piece of record text.  Concatenation of strings is \o.             *)
(***************************************************************************)
EXTENDS Integers, Sequences, FiniteSets, TLC

\* ------------------------------------------------------------------ bounds
MaxPoints == 3
MaxBatchSize == 3
MaxExtra == 1
MaxFmtBatch == 2
MaxStart == 9

\* ------------------------------------------------------------------ text
Digits == <<"0", "1", "2", "3", "4", "5", "6", "7", "8", "9">>

IsDigit(t) == \E d \in 1..10 : Digits[d] = t

DigitValue(t) == (CHOOSE d \in 1..10 : Digits[d] = t) - 1

\* f"{n}" for an int n >= 0: its decimal digits, most significant first.
RECURSIVE IntToStr(_)
IntToStr(n) == IF n < 10 THEN <<Digits[n + 1]>>
               ELSE IntToStr(n \div 10) \o <<Digits[(n % 10) + 1]>>

\* The literal pieces of the templates.
CN == "Content number "
NL == "\n"
COUNT_PREFIX == "You must generate exactly a list of "
COUNT_SUFFIX == " json objects, using the contents provided under CONTENTS FOR GENERATION\n"
CONTEXT_MSG == "\nCONTENTS FOR GENERATION: \n"

USER_PROMPT ==
    << "I will give you batches of contents of posts. Please generate me exactly 1 instruction for each of them. The posts text for which you have to generate the instructions is under ",
       CN,
       "x lines. Please structure the answer in json format,ready to be loaded by json.loads(), a list of objects only with fields called instruction and content. For the content field, copy the number of the content only!.Please do not add any extra characters and make sure it is a list with objects in valid json format!\n" >>

\* str(data_point) of a str is that str.
str(data_point) == data_point

\* MarkerLine numbering from 0 in every batch.
MarkerLine_NoOffset(start_index, index) == <<CN>> \o IntToStr(index) \o <<NL>>

\* The marker line format_data writes before an item.
MarkerLine(start_index, index) == <<CN>> \o IntToStr(start_index + index) \o <<NL>>

\* The body of format_data's loop from position `index` (0-based) on.
RECURSIVE format_data_from(_, _, _, _)
format_data_from(data_points, is_example, start_index, index) ==
    IF index >= Len(data_points) THEN <<>>
    ELSE (IF ~is_example THEN MarkerLine(start_index, index) ELSE <<>>)
         \o str(data_points[index + 1]) \o <<NL>>
         \o format_data_from(data_points, is_example, start_index, index + 1)

format_data(data_points, is_example, start_index) ==
    format_data_from(data_points, is_example, start_index, 0)

format_batch(context_msg, data_points, start_index) ==
    <<context_msg>> \o format_data(data_points, FALSE, start_index)

format_prompt(inference_posts, start_index) ==
    USER_PROMPT
    \o <<COUNT_PREFIX>> \o IntToStr(Len(inference_posts)) \o <<COUNT_SUFFIX>>
    \o format_batch(CONTEXT_MSG, inference_posts, start_index)


\* json.dump's escape of one token: newline, double quote and backslash.
json_escape_token(t) ==
    IF t = NL THEN "\\n"
    ELSE IF t = "\"" THEN "\\\""
    ELSE IF t = "\\" THEN "\\\\"
    ELSE t

\* json.dump of a str: the escaped text, between double quotes in json_str.
RECURSIVE json_escape(_)
json_escape(s) ==
    IF s = <<>> THEN <<>>
    ELSE <<json_escape_token(Head(s))>> \o json_escape(Tail(s))

json_str(s) == <<"\"">> \o json_escape(s) \o <<"\"">>

json_object(obj) ==
    <<"{", "\"instruction\": ">> \o json_str(obj.instruction)
    \o <<", ", "\"content\": ">> \o json_str(obj.content) \o <<"}">>

\* json.dump(data, f): the text written for a list of {instruction, content}.
RECURSIVE json_dump_items(_)
json_dump_items(data) ==
    IF data = <<>> THEN <<>>
    ELSE json_object(Head(data))
         \o (IF Len(data) > 1 THEN <<", ">> ELSE <<>>)
         \o json_dump_items(Tail(data))

json_dump(data) == <<"[">> \o json_dump_items(data) \o <<"]">>

\* ------------------------------------------------------------------ inputs
Min(a, b) == IF a < b THEN a ELSE b

\* Slice taking one item more.
Slice_Inclusive(s, lo, hi) == SubSeq(s, lo + 1, Min(hi + 1, Len(s)))

\* Python's s[lo:hi] for 0 <= lo <= hi: clipped to the list.
Slice(s, lo, hi) == SubSeq(s, lo + 1, Min(hi, Len(s)))

\* Record texts of the ContentStore.
Texts == {<<"A">>, <<"B">>}

\* point.payload: the key may be missing; its value may be None, "" or text.
PayloadAbsent == [has_key |-> FALSE, is_none |-> FALSE, text |-> <<>>]
PayloadNone == [has_key |-> TRUE, is_none |-> TRUE, text |-> <<>>]
PayloadStr(t) == [has_key |-> TRUE, is_none |-> FALSE, text |-> t]

Payloads == {PayloadAbsent, PayloadNone, PayloadStr(<<>>)} \cup {PayloadStr(t) : t \in Texts}

\* scroll_response[0]: the first page of the collection.
Pages == UNION {[1..n -> Payloads] : n \in 0..MaxPoints}

\* Python truthiness of a payload value.
Truthy(v) == ~v.is_none /\ v.text # <<>>

\* ------------------------------------------------------------------ state
VARIABLES
    points,          \* scroll_response[0]
    batch_size,      \* generate_training_data's batch_size
    pc,              \* position of the run
    error,           \* the exception that left generate_training_data, or "none"
    all_contents,    \* generate_training_data: all_contents
    response,        \* generate_training_data: response
    i,               \* the for loop's i (the next value of range(0, n, batch_size))
    batch,           \* the current batch
    initial_prompt,  \* the prompt of the current batch
    calls,           \* history: the format_prompt/send_prompt calls made
    returned,        \* history: the objects send_prompt returned, as returned
    exact,           \* history: every send_prompt call returned len(batch) objects
    pushed,          \* push_to_comet has been called
    data,            \* push_to_comet's data
    file,            \* <collection_name>.json
    writes,          \* number of times the file was written
    sink_failed,     \* the push_to_comet step whose exception was caught, or "none"
    fmt_pc,          \* DataFormatter run: position
    fmt_posts,       \* DataFormatter run: format_prompt's inference_posts
    fmt_start,       \* DataFormatter run: format_prompt's start_index
    fmt_out          \* DataFormatter run: the returned prompt

gen_vars == <<points, batch_size, pc, error, all_contents, response, i, batch,
              initial_prompt, calls, returned, exact, pushed, data, file, writes,
              sink_failed>>

fmt_vars == <<fmt_pc, fmt_posts, fmt_start, fmt_out>>

vars == <<gen_vars, fmt_vars>>

NoFile == [exists |-> FALSE, content |-> <<>>]

GenIdle ==
    /\ pc = "start"
    /\ error = "none"
    /\ all_contents = <<>>
    /\ response = <<>>
    /\ i = 0
    /\ batch = <<>>
    /\ initial_prompt = <<>>
    /\ calls = <<>>
    /\ returned = <<>>
    /\ exact = TRUE
    /\ pushed = FALSE
    /\ data = <<>>
    /\ file = NoFile
    /\ writes = 0
    /\ sink_failed = "none"

FmtIdle ==
    /\ fmt_pc = "idle"
    /\ fmt_posts = <<>>
    /\ fmt_start = 0
    /\ fmt_out = <<>>

\* generate_training_data(collection_name, batch_size) is about to run on a page.
Init ==
    /\ points \in Pages
    /\ batch_size \in 1..MaxBatchSize
    /\ GenIdle
    /\ FmtIdle

\* ------------------------------------------------------------------ fetch
\* The loop of fetch_all_cleaned_content over points[k..]: the kept values.
RECURSIVE fetch_from(_, _)
fetch_from(pts, k) ==
    IF k > Len(pts) THEN <<>>
    ELSE (IF Truthy(pts[k]) THEN <<pts[k].text>> ELSE <<>>) \o fetch_from(pts, k + 1)

\* point.payload["cleaned_content"] raises KeyError when the key is missing.
fetch_raises(pts) == \E k \in 1..Len(pts) : ~pts[k].has_key

fetch_all_cleaned_content(pts) == fetch_from(pts, 1)

FetchReturns ==
    /\ pc = "start"
    /\ ~fetch_raises(points)
    /\ all_contents' = fetch_all_cleaned_content(points)
    /\ pc' = "loop"
    /\ UNCHANGED <<points, batch_size, error, response, i, batch, initial_prompt,
                   calls, returned, exact, pushed, data, file, writes, sink_failed>>
    /\ UNCHANGED fmt_vars

FetchRaises ==
    /\ pc = "start"
    /\ fetch_raises(points)
    /\ pc' = "raised"
    /\ error' = "KeyError"
    /\ UNCHANGED <<points, batch_size, all_contents, response, i, batch,
                   initial_prompt, calls, returned, exact, pushed, data, file,
                   writes, sink_failed>>
    /\ UNCHANGED fmt_vars

\* ------------------------------------------------------------------ batches
\* RangeHasNext with the end included.
RangeHasNext_Inclusive(idx, n) == idx <= n

\* range(0, n, batch_size) has a next value i.
RangeHasNext(idx, n) == idx < n

\* for i in range(...): batch = all_contents[i : i + batch_size];
\* initial_prompt = data_formatter.format_prompt(batch, i)
\* (data_formatter is the module-level DataFormatter the script makes at line
\* 122 before it calls generate_training_data.)
ForNext ==
    /\ pc = "loop"
    /\ RangeHasNext(i, Len(all_contents))
    /\ batch' = Slice(all_contents, i, i + batch_size)
    /\ initial_prompt' = format_prompt(batch', i)
    /\ calls' = Append(calls, [start_index |-> i, batch |-> batch'])
    /\ pc' = "send"
    /\ UNCHANGED <<points, batch_size, error, all_contents, response, i, returned,
                   exact, pushed, data, file, writes, sink_failed>>
    /\ UNCHANGED fmt_vars

\* The range is exhausted: self.push_to_comet(response, collection_name).
ForExit ==
    /\ pc = "loop"
    /\ ~RangeHasNext(i, Len(all_contents))
    /\ pushed' = TRUE
    /\ data' = response
    /\ pc' = "push"
    /\ UNCHANGED <<points, batch_size, error, all_contents, response, i, batch,
                   initial_prompt, calls, returned, exact, file, writes, sink_failed>>
    /\ UNCHANGED fmt_vars

\* What CompletionClient.send_prompt returns when it returns k objects: the
\* instruction texts are numbered over the whole run, the content field echoes
\* the number of the item in the prompt.
send_prompt(k, first, base) ==
    [p \in 1..k |-> [instruction |-> <<"instruction ">> \o IntToStr(base + p),
                     content |-> IntToStr(first + p - 1)]]

\* response += self.api_communicator.send_prompt(initial_prompt), k objects back.
SendPromptReturns ==
    /\ pc = "send"
    /\ \E k \in 0..(Len(batch) + MaxExtra) :
        /\ response' = response \o send_prompt(k, i, Len(returned))
        /\ returned' = returned \o send_prompt(k, i, Len(returned))
        /\ exact' = (exact /\ k = Len(batch))
    /\ pc' = "overwrite"
    /\ UNCHANGED <<points, batch_size, error, all_contents, i, batch, initial_prompt,
                   calls, pushed, data, file, writes, sink_failed>>
    /\ UNCHANGED fmt_vars

\* SendPromptRaises with the error caught and the batches so far pushed.
SendPromptRaises_Caught ==
    /\ pc = "send"
    /\ pc' = "push"
    /\ pushed' = TRUE
    /\ data' = response
    /\ error' = "CompletionError"
    /\ UNCHANGED <<points, batch_size, all_contents, response, i, batch,
                   initial_prompt, calls, returned, exact, file, writes, sink_failed>>
    /\ UNCHANGED fmt_vars

\* send_prompt raises: nothing in generate_training_data catches it.
SendPromptRaises ==
    /\ pc = "send"
    /\ pc' = "raised"
    /\ error' = "CompletionError"
    /\ UNCHANGED <<points, batch_size, all_contents, response, i, batch,
                   initial_prompt, calls, returned, exact, pushed, data, file,
                   writes, sink_failed>>
    /\ UNCHANGED fmt_vars

\* response[j]["content"] = all_contents[j] for the 0-based j in lo..hi-1.
Overwritten(resp, lo, hi) ==
    [k \in 1..Len(resp) |->
        IF lo < k /\ k <= hi THEN [resp[k] EXCEPT !.content = all_contents[k]]
        ELSE resp[k]]

\* The first j of range(i, i + batch_size) at which all_contents[j] or
\* response[j] is out of range; i + batch_size when there is none.
OverwriteStop == Min(i + batch_size, Min(Len(all_contents), Len(response)))

\* OverwriteDone saving the Dataset so far to the file after every batch.
OverwriteDone_Checkpoint ==
    /\ pc = "overwrite"
    /\ OverwriteStop = i + batch_size
    /\ response' = Overwritten(response, i, i + batch_size)
    /\ i' = i + batch_size
    /\ file' = [exists |-> TRUE, content |-> json_dump(response')]
    /\ writes' = writes + 1
    /\ pc' = "loop"
    /\ UNCHANGED <<points, batch_size, error, all_contents, batch, initial_prompt,
                   calls, returned, exact, pushed, data, sink_failed>>
    /\ UNCHANGED fmt_vars

\* for j in range(i, i + batch_size): response[j]["content"] = all_contents[j]
OverwriteDone ==
    /\ pc = "overwrite"
    /\ OverwriteStop = i + batch_size
    /\ response' = Overwritten(response, i, i + batch_size)
    /\ i' = i + batch_size
    /\ pc' = "loop"
    /\ UNCHANGED <<points, batch_size, error, all_contents, batch, initial_prompt,
                   calls, returned, exact, pushed, data, file, writes, sink_failed>>
    /\ UNCHANGED fmt_vars

\* The same loop reaching a j out of range: IndexError, after the earlier j.
OverwriteRaises ==
    /\ pc = "overwrite"
    /\ OverwriteStop < i + batch_size
    /\ response' = Overwritten(response, i, OverwriteStop)
    /\ pc' = "raised"
    /\ error' = "IndexError"
    /\ UNCHANGED <<points, batch_size, all_contents, i, batch, initial_prompt,
                   calls, returned, exact, pushed, data, file, writes, sink_failed>>
    /\ UNCHANGED fmt_vars

\* ------------------------------------------------------------------ push_to_comet
\* Caught re-raising the exception.
Caught_Reraised(step) ==
    /\ sink_failed' = step
    /\ pc' = "raised"

\* except Exception as e: logging.error(...): push_to_comet returns.
Caught(step) ==
    /\ sink_failed' = step
    /\ pc' = "returned"

ExperimentCreated ==
    /\ pc = "push"
    /\ pc' = "write"
    /\ UNCHANGED <<points, batch_size, error, all_contents, response, i, batch,
                   initial_prompt, calls, returned, exact, pushed, data, file,
                   writes, sink_failed>>
    /\ UNCHANGED fmt_vars

ExperimentFails ==
    /\ pc = "push"
    /\ Caught("experiment")
    /\ UNCHANGED <<points, batch_size, error, all_contents, response, i, batch,
                   initial_prompt, calls, returned, exact, pushed, data, file, writes>>
    /\ UNCHANGED fmt_vars

\* with open(file_name, "w") as f: json.dump(data, f)
FileWritten ==
    /\ pc = "write"
    /\ file' = [exists |-> TRUE, content |-> json_dump(data)]
    /\ writes' = writes + 1
    /\ pc' = "artifact"
    /\ UNCHANGED <<points, batch_size, error, all_contents, response, i, batch,
                   initial_prompt, calls, returned, exact, pushed, data, sink_failed>>
    /\ UNCHANGED fmt_vars

\* open() raises: no file is made.
FileWriteFails ==
    /\ pc = "write"
    /\ Caught("write")
    /\ UNCHANGED <<points, batch_size, error, all_contents, response, i, batch,
                   initial_prompt, calls, returned, exact, pushed, data, file, writes>>
    /\ UNCHANGED fmt_vars

\* artifact = Artifact(collection_name); artifact.add(file_name)
ArtifactAdded ==
    /\ pc = "artifact"
    /\ pc' = "log"
    /\ UNCHANGED <<points, batch_size, error, all_contents, response, i, batch,
                   initial_prompt, calls, returned, exact, pushed, data, file,
                   writes, sink_failed>>
    /\ UNCHANGED fmt_vars

ArtifactFails ==
    /\ pc = "artifact"
    /\ Caught("artifact")
    /\ UNCHANGED <<points, batch_size, error, all_contents, response, i, batch,
                   initial_prompt, calls, returned, exact, pushed, data, file, writes>>
    /\ UNCHANGED fmt_vars

\* experiment.log_artifact(artifact)
ArtifactLogged ==
    /\ pc = "log"
    /\ pc' = "end"
    /\ UNCHANGED <<points, batch_size, error, all_contents, response, i, batch,
                   initial_prompt, calls, returned, exact, pushed, data, file,
                   writes, sink_failed>>
    /\ UNCHANGED fmt_vars

LogArtifactFails ==
    /\ pc = "log"
    /\ Caught("log")
    /\ UNCHANGED <<points, batch_size, error, all_contents, response, i, batch,
                   initial_prompt, calls, returned, exact, pushed, data, file, writes>>
    /\ UNCHANGED fmt_vars

\* experiment.end(); push_to_comet and generate_training_data return.
ExperimentEnded ==
    /\ pc = "end"
    /\ pc' = "returned"
    /\ UNCHANGED <<points, batch_size, error, all_contents, response, i, batch,
                   initial_prompt, calls, returned, exact, pushed, data, file,
                   writes, sink_failed>>
    /\ UNCHANGED fmt_vars

ExperimentEndFails ==
    /\ pc = "end"
    /\ Caught("end")
    /\ UNCHANGED <<points, batch_size, error, all_contents, response, i, batch,
                   initial_prompt, calls, returned, exact, pushed, data, file, writes>>
    /\ UNCHANGED fmt_vars

Next ==
    \/ FetchReturns
    \/ FetchRaises
    \/ ForNext
    \/ ForExit
    \/ SendPromptReturns
    \/ SendPromptRaises
    \/ OverwriteDone
    \/ OverwriteRaises
    \/ ExperimentCreated
    \/ ExperimentFails
    \/ FileWritten
    \/ FileWriteFails
    \/ ArtifactAdded
    \/ ArtifactFails
    \/ ArtifactLogged
    \/ LogArtifactFails
    \/ ExperimentEnded
    \/ ExperimentEndFails

Spec == Init /\ [][Next]_vars

\* ------------------------------------------------------------------ DataFormatter alone
\* Item texts: plain, starting with a digit, with a newline and JSON-special
\* characters, ending with the marker phrase, and holding a whole marker.
FmtTexts ==
    { <<"a">>, <<"7", "a">>, <<"a", NL, "{\"">>, <<"a", CN>>, <<CN, "7">> }

FmtBatches == UNION {[1..n -> FmtTexts] : n \in 1..MaxFmtBatch}

\* format_prompt(inference_posts, start_index) is about to be called.
FmtInit ==
    /\ points = <<>>
    /\ batch_size = 1
    /\ GenIdle
    /\ fmt_pc = "ready"
    /\ fmt_posts \in FmtBatches
    /\ fmt_start \in 0..MaxStart
    /\ fmt_out = <<>>

FormatPrompt ==
    /\ fmt_pc = "ready"
    /\ fmt_out' = format_prompt(fmt_posts, fmt_start)
    /\ fmt_pc' = "done"
    /\ UNCHANGED <<fmt_posts, fmt_start>>
    /\ UNCHANGED gen_vars

FmtNext == FormatPrompt

SpecFmt == FmtInit /\ [][FmtNext]_vars

\* ------------------------------------------------------------------ reading a prompt
\* The value of a sequence of digit tokens.
RECURSIVE ParseInt(_)
ParseInt(ds) ==
    IF ds = <<>> THEN 0
    ELSE 10 * ParseInt(SubSeq(ds, 1, Len(ds) - 1)) + DigitValue(ds[Len(ds)])

\* The position after the longest run of digits of s that starts at p.
RECURSIVE DigitRunEnd(_, _)
DigitRunEnd(s, p) ==
    IF p <= Len(s) /\ IsDigit(s[p]) THEN DigitRunEnd(s, p + 1) ELSE p

\* The "Content number N" markers of s from position p on, in order: for each,
\* its N and the position of the token after the number.
RECURSIVE MarkersFrom(_, _)
MarkersFrom(s, p) ==
    IF p > Len(s) THEN <<>>
    ELSE IF s[p] = CN /\ p < Len(s) /\ IsDigit(s[p + 1])
         THEN <<[value |-> ParseInt(SubSeq(s, p + 1, DigitRunEnd(s, p + 1) - 1)),
                 after |-> DigitRunEnd(s, p + 1)]>>
              \o MarkersFrom(s, DigitRunEnd(s, p + 1))
         ELSE MarkersFrom(s, p + 1)

Markers(s) == MarkersFrom(s, 1)

\* s states the output count n: "... a list of n json objects ...".
StatesCount(s, n) ==
    \E p \in 1..Len(s) :
        /\ s[p] = COUNT_PREFIX
        /\ DigitRunEnd(s, p + 1) > p + 1
        /\ ParseInt(SubSeq(s, p + 1, DigitRunEnd(s, p + 1) - 1)) = n
        /\ DigitRunEnd(s, p + 1) <= Len(s)
        /\ s[DigitRunEnd(s, p + 1)] = COUNT_SUFFIX

\* out has one marker per item of posts, numbered first, first + 1, ..., each
\* followed (after the end of its line) by the item's text, and states the count.
WellMarked(out, posts, first) ==
    /\ Len(Markers(out)) = Len(posts)
    /\ \A k \in 1..Len(posts) :
        LET m == Markers(out)[k]
        IN /\ m.value = first + k - 1
           /\ m.after + Len(posts[k]) <= Len(out)
           /\ out[m.after] = NL
           /\ SubSeq(out, m.after + 1, m.after + Len(posts[k])) = posts[k]
    /\ StatesCount(out, Len(posts))

NoMarkerInside(posts) == \A k \in 1..Len(posts) : Markers(posts[k]) = <<>>

\* ------------------------------------------------------------------ claims
Ceil(n, b) == (n + b - 1) \div b

RECURSIVE Concat(_)
Concat(ss) == IF ss = <<>> THEN <<>> ELSE Head(ss) \o Concat(Tail(ss))

Terminated == pc \in {"returned", "raised"}

\* C1: whenever every CompletionClient call returned exactly as many objects as
\* its batch held and there is at least one fetched record, the run ends
\* without an error and push_to_comet got exactly one entry per record: entry k
\* has the instruction of the k-th returned object and the k-th record's text.
C1_Claim ==
    (/\ Terminated
     /\ error \notin {"KeyError", "CompletionError"}
     /\ exact
     /\ Len(all_contents) >= 1)
    => /\ pc = "returned"
       /\ pushed
       /\ Len(data) = Len(all_contents)
       /\ \A k \in 1..Len(data) :
            /\ k <= Len(returned)
            /\ data[k].instruction = returned[k].instruction
            /\ data[k].content = all_contents[k]

\* C2: the k-th batch issued is the contiguous slice of the fetched records
\* starting at global position (k-1)*batch_size, with that start_index; no
\* batch is empty and only the last may be shorter than batch_size; when the
\* loop has gone through the range, ceil(n / batch_size) batches were issued
\* and their concatenation is the fetched sequence.
C2_Batches ==
    LET n == Len(all_contents)
        b == batch_size
    IN /\ Len(calls) <= Ceil(n, b)
       /\ \A k \in 1..Len(calls) :
            /\ calls[k].start_index = (k - 1) * b
            /\ Len(calls[k].batch) = Min(b, n - (k - 1) * b)
            /\ \A q \in 1..Len(calls[k].batch) :
                 calls[k].batch[q] = all_contents[(k - 1) * b + q]
            /\ Len(calls[k].batch) < b => k = Ceil(n, b)
       /\ (pushed \/ (pc = "raised" /\ error = "IndexError" /\ exact))
            => /\ Len(calls) = Ceil(n, b)
               /\ Concat([k \in 1..Len(calls) |-> calls[k].batch]) = all_contents

\* C2 witness: 3 or more records in batches of 2, the last batch one record short.
C2_Witness ==
    /\ batch_size = 2
    /\ Len(all_contents) >= 3
    /\ Len(calls) = 2
    /\ Len(calls[2].batch) = 1
    /\ exact
    /\ Terminated

\* C3: once a CompletionClient call has failed, the run has ended with that
\* error, push_to_comet was never called and no file was written.
C3_NoFileOnCompletionError ==
    error = "CompletionError"
    => /\ pc = "raised"
       /\ ~pushed
       /\ ~file.exists
       /\ writes = 0

\* C3 witness: the call of a later batch failed, after an earlier one succeeded.
C3_Witness ==
    /\ error = "CompletionError"
    /\ Len(calls) >= 2
    /\ Len(response) >= 1

\* C4: when a remote step of push_to_comet (experiment creation, artifact
\* creation, artifact logging, experiment end) has failed, the local file holds
\* the complete Dataset.
C4_Claim ==
    sink_failed \in {"experiment", "artifact", "log", "end"}
    => /\ file.exists
       /\ file.content = json_dump(data)

\* C5: once push_to_comet has been called no exception leaves
\* generate_training_data: a failed step ends the run as a normal return, and
\* until the return a step is always possible.
C5_NoPropagation ==
    /\ pushed => (pc # "raised" /\ error = "none")
    /\ sink_failed # "none" => pc = "returned"
    /\ pushed => (pc = "returned" \/ ENABLED Next)

\* C5 witness: a step of push_to_comet failed on a Dataset of two or more entries.
C5_Witness ==
    /\ pc = "returned"
    /\ sink_failed # "none"
    /\ Len(data) >= 2

\* C6: a batch whose completion has another length than the batch fails with an
\* error once its objects have been merged, and a Dataset handed to
\* push_to_comet has exactly one entry per fetched record.
C6_Claim ==
    /\ (~exact /\ pc # "overwrite") => pc = "raised"
    /\ pushed => Len(data) = Len(all_contents)

\* C7: with 0 fetched records no send_prompt call is made and the Dataset is
\* empty, and push_to_comet gets the empty Dataset; with exactly batch_size
\* records at most one call is made, and exactly one by the end of the run.
C7_Boundary ==
    LET n == Len(all_contents)
        fetched == pc # "start" /\ error # "KeyError"
    IN /\ (fetched /\ n = 0)
            => /\ calls = <<>>
               /\ response = <<>>
               /\ pc # "raised"
               /\ pushed => data = <<>>
               /\ pc = "returned" => pushed
       /\ (fetched /\ n = batch_size)
            => /\ Len(calls) <= 1
               /\ Terminated => Len(calls) = 1

\* C7 witness: a page whose records are all dropped, run to the end with the
\* empty Dataset written.
C7_Witness ==
    /\ pc = "returned"
    /\ Len(points) >= 2
    /\ all_contents = <<>>
    /\ file.exists
    /\ file.content = json_dump(<<>>)

\* C8 as stated: for every non-empty batch the prompt holds exactly one marker
\* per item, numbered from start_index, each followed by the item's text, and
\* states the count.
C8_Claim ==
    fmt_pc = "done" => WellMarked(fmt_out, fmt_posts, fmt_start)

\* C8 amended: the same for every non-empty batch none of whose item texts
\* holds a "Content number N" marker itself.
C8_Markers ==
    (fmt_pc = "done" /\ NoMarkerInside(fmt_posts))
    => WellMarked(fmt_out, fmt_posts, fmt_start)

\* C8 witness: two items, one with a newline and JSON-special characters, one
\* starting with a digit, numbered 9 and 10.
C8_Witness ==
    /\ fmt_pc = "done"
    /\ fmt_start = 9
    /\ fmt_posts = << <<"a", NL, "{\"">>, <<"7", "a">> >>
    /\ Len(Markers(fmt_out)) = 2
    /\ Markers(fmt_out)[2].value = 10

\* C9: the file is written at most once, only after the loop has gone through
\* the whole range and every record's content was put in place; it holds the
\* whole Dataset; and once it is written there is no further send_prompt call,
\* no change of the Dataset and no second write.
C9_SerializedOnce ==
    /\ [](/\ writes <= 1
          /\ file.exists
               => /\ writes = 1
                  /\ pushed
                  /\ i >= Len(all_contents)
                  /\ pc \notin {"loop", "send", "overwrite"}
                  /\ Len(response) >= Len(all_contents)
                  /\ \A j \in 1..Len(all_contents) :
                       response[j].content = all_contents[j]
                  /\ file.content = json_dump(response))
    /\ [][file.exists => (response' = response /\ calls' = calls /\ file' = file)]_vars

\* C9 witness: the file written after two batches.
C9_Witness ==
    /\ file.exists
    /\ Len(calls) = 2
    /\ pc = "returned"
    /\ sink_failed = "none"

\* The cleaned_content values of the first page that are present and non-empty.
RECURSIVE Kept(_)
Kept(pts) ==
    IF pts = <<>> THEN <<>>
    ELSE (IF Head(pts).has_key /\ ~Head(pts).is_none /\ Head(pts).text # <<>>
          THEN <<Head(pts).text>> ELSE <<>>) \o Kept(Tail(pts))

\* C10: fetch_all_cleaned_content raises no error and returns, in order, the
\* present and non-empty cleaned_content values of the first page.
C10_Claim ==
    pc # "start" => (error # "KeyError" /\ all_contents = Kept(points))

====
